---- MODULE Spec2Model ----
(***************************************************************************)
(* A model of debruijn.py: the de Bruijn graph construction, the path      *)
(* selector, the bubble and tip resolvers, the contig extractor and the    *)
(* pipeline driver.                                                        *)
(*                                                                         *)
(* A graph is a record [nodes, edges]: nodes is the sequence of the nodes  *)
(* in insertion order (the order networkx iterates them in), edges is the  *)
(* set of triples <<u, v, weight>>.  A node and a k-mer are sequences of   *)
(* characters.  An average weight is a rational <<numerator, denominator>>.*)
(***************************************************************************)
EXTENDS Integers, Sequences, FiniteSets, TLC

VARIABLES
    pc,          \* the position of the program
    graph,       \* the graph the program holds
    graph_in,    \* the graph the current operation was given
    kmer_dict,   \* build_graph's argument: the items (kmer, count) in dict order
    kmer_idx,    \* build_graph's loop: the number of items processed
    sel,         \* select_best_path's arguments
    rng_pos,     \* the global random source: the next word of its stream
    runs,        \* the outcomes of the calls of select_best_path so far
    out,         \* the outcome of the last graph operation
    calls,       \* main: the functions called so far, in order
    depth        \* simplify_bubbles: the depth of the recursion

vars == <<pc, graph, graph_in, kmer_dict, kmer_idx, sel, rng_pos, runs, out, calls, depth>>

(***************************************************************************)
(* Bounds of the model.                                                    *)
(***************************************************************************)
MaxKmerLen == 2
MaxItems == 2
MaxCount == 2
MaxPaths == 3
MaxRunPaths == 2
MaxRuns == 3
MaxGraphEdges == 4
MaxDepth == 4
MaxContigEdges == 3
MaxReadLen == 4
MaxReads == 2

Alphabet == {"A", "C"}

(***************************************************************************)
(* Generic helpers.                                                        *)
(***************************************************************************)
Range(s) == {s[i] : i \in 1..Len(s)}

SeqsUpTo(S, n) == UNION {[1..m -> S] : m \in 0..n}

IsInjective(s) == \A i, j \in 1..Len(s) : i # j => s[i] # s[j]

RECURSIVE Flatten(_)
Flatten(ss) == IF ss = <<>> THEN <<>> ELSE Head(ss) \o Flatten(Tail(ss))

(***************************************************************************)
(* networkx.DiGraph, as the program uses it.                               *)
(***************************************************************************)
EmptyGraph == [nodes |-> <<>>, edges |-> {}]

has_node(G, n) == n \in Range(G.nodes)

add_node(G, n) == IF has_node(G, n) THEN G ELSE [G EXCEPT !.nodes = Append(@, n)]

has_edge(G, u, v) == \E e \in G.edges : e[1] = u /\ e[2] = v

edge_weight(G, u, v) == (CHOOSE e \in G.edges : e[1] = u /\ e[2] = v)[3]

\* add_edge adds the missing endpoints and replaces the data of an existing edge
add_edge(G, u, v, w) ==
    LET G1 == add_node(add_node(G, u), v)
    IN [G1 EXCEPT !.edges = {e \in @ : ~(e[1] = u /\ e[2] = v)} \cup {<<u, v, w>>}]

\* graph[u][v]['weight'] += count
add_to_weight(G, u, v, count) ==
    [G EXCEPT !.edges = {e \in @ : ~(e[1] = u /\ e[2] = v)}
                          \cup {<<u, v, edge_weight(G, u, v) + count>>}]

\* the sum of the weights of a set of edges
RECURSIVE SumEdgeWeights(_)
SumEdgeWeights(E) ==
    IF E = {} THEN 0
    ELSE LET e == CHOOSE x \in E : TRUE IN e[3] + SumEdgeWeights(E \ {e})

\* remove_nodes_from: the nodes leave with every edge touching them; a node
\* that is not in the graph is ignored
remove_nodes_from(G, ns) ==
    [nodes |-> SelectSeq(G.nodes, LAMBDA n : n \notin Range(ns)),
     edges |-> {e \in G.edges : e[1] \notin Range(ns) /\ e[2] \notin Range(ns)}]

\* the predecessors and the successors of a node, in the order of the nodes
predecessors(G, n) == SelectSeq(G.nodes, LAMBDA m : has_edge(G, m, n))

successors(G, n) == SelectSeq(G.nodes, LAMBDA m : has_edge(G, n, m))

(***************************************************************************)
(* statistics and random, as the program uses them.  The rationals are     *)
(* compared exactly, as statistics does before it rounds to a float.       *)
(***************************************************************************)
RLess(a, b) == a[1] * b[2] < b[1] * a[2]

REq(a, b) == a[1] * b[2] = b[1] * a[2]

RECURSIVE ProdDen(_, _)
ProdDen(xs, n) == IF n = 0 THEN 1 ELSE xs[n][2] * ProdDen(xs, n - 1)

\* the values times the product of all their denominators: integers
Scaled(xs) == [i \in 1..Len(xs) |-> xs[i][1] * (ProdDen(xs, Len(xs)) \div xs[i][2])]

RECURSIVE SumSeq(_, _)
SumSeq(xs, n) == IF n = 0 THEN 0 ELSE xs[n] + SumSeq(xs, n - 1)

\* statistics.stdev(xs) > 0, for at least two values: the sum of the squared
\* deviations from the mean, n * sum(x^2) - sum(x)^2 up to a positive factor
stdev_positive(xs) ==
    LET s == Scaled(xs)
        n == Len(s)
    IN n * SumSeq([i \in 1..n |-> s[i] * s[i]], n) - SumSeq(s, n) * SumSeq(s, n) > 0

\* max(xs): the first of the largest values
RECURSIVE list_max(_, _)
list_max(xs, n) ==
    IF n = 1 THEN xs[1]
    ELSE LET m == list_max(xs, n - 1) IN IF RLess(m, xs[n]) THEN xs[n] ELSE m

\* xs.index(x), counted from 0
list_index(xs, x) == (CHOOSE i \in 1..Len(xs) : REq(xs[i], x) /\ \A j \in 1..(i - 1) : ~REq(xs[j], x)) - 1

AsRationals(ns) == [i \in 1..Len(ns) |-> <<ns[i], 1>>]

\* The stream of the Mersenne Twister after random.seed(9001): the four high
\* bits of each of its first 32-bit words.
MTWords == <<0, 4, 4, 1, 9, 4, 9, 13, 9, 15, 8, 0, 11, 10, 14, 4, 9, 10, 8, 10, 12, 12, 15, 5>>

\* random_seed without effect: the state of the random source is left as it is
random_seed_absent(pos) == pos

\* random.seed(9001): the stream starts again at its first word
random_seed(pos) == 1

bit_length(n) == IF n >= 8 THEN 4 ELSE IF n >= 4 THEN 3 ELSE IF n >= 2 THEN 2 ELSE IF n >= 1 THEN 1 ELSE 0

Pow2(k) == IF k = 0 THEN 1 ELSE IF k = 1 THEN 2 ELSE IF k = 2 THEN 4 ELSE IF k = 3 THEN 8 ELSE 16

\* getrandbits(k), k <= 4: the k high bits of the next word
getrandbits(k, pos) == MTWords[pos] \div Pow2(4 - k)

\* _randbelow(n): words are drawn until one is below n.  Past the end of the
\* table the position keeps growing, and the caller's guard refuses the call.
RECURSIVE randbelow(_, _)
randbelow(n, pos) ==
    IF pos > Len(MTWords) THEN [value |-> 0, pos |-> pos + 1]
    ELSE LET r == getrandbits(bit_length(n), pos)
         IN IF r >= n THEN randbelow(n, pos + 1) ELSE [value |-> r, pos |-> pos + 1]

\* random.randint(a, b) = a + _randbelow(b - a + 1)
randint(a, b, pos) ==
    LET d == randbelow(b - a + 1, pos) IN [value |-> a + d.value, pos |-> d.pos]

(***************************************************************************)
(* remove_paths and select_best_path                                       *)
(***************************************************************************)
\* path[:-1], path[1:] and path[1:-1]
AllButLast(path) == IF Len(path) = 0 THEN <<>> ELSE SubSeq(path, 1, Len(path) - 1)

AllButFirst(path) == IF Len(path) = 0 THEN <<>> ELSE SubSeq(path, 2, Len(path))

Interior(path) == IF Len(path) <= 2 THEN <<>> ELSE SubSeq(path, 2, Len(path) - 1)

RECURSIVE remove_paths_from(_, _, _, _, _)
remove_paths_from(G, path_list, i, delete_entry_node, delete_sink_node) ==
    IF i > Len(path_list) THEN G
    ELSE LET path == path_list[i]
             G1 == IF delete_entry_node /\ delete_sink_node
                       THEN remove_nodes_from(G, path)
                   ELSE IF delete_entry_node /\ ~delete_sink_node
                       THEN remove_nodes_from(G, AllButLast(path))
                   ELSE IF ~delete_entry_node /\ delete_sink_node
                       THEN remove_nodes_from(G, AllButFirst(path))
                   ELSE remove_nodes_from(G, Interior(path))
         IN remove_paths_from(G1, path_list, i + 1, delete_entry_node, delete_sink_node)

remove_paths(G, path_list, delete_entry_node, delete_sink_node) ==
    remove_paths_from(G, path_list, 1, delete_entry_node, delete_sink_node)

\* best_path_choice with the two tests swapped: the lengths are looked at
\* before the weights
best_path_choice_length_first(path_list, path_length, weight_avg_list, pos) ==
    IF stdev_positive(AsRationals(path_length))
    THEN [index |-> list_index(AsRationals(path_length),
                               list_max(AsRationals(path_length), Len(path_length))),
          pos |-> pos]
    ELSE IF stdev_positive(weight_avg_list)
    THEN [index |-> list_index(weight_avg_list, list_max(weight_avg_list, Len(weight_avg_list))),
          pos |-> pos]
    ELSE LET d == randint(0, Len(path_list) - 1, pos) IN [index |-> d.value, pos |-> d.pos]

\* the index select_best_path chooses (from 0) and the random source after it
best_path_choice(path_list, path_length, weight_avg_list, pos) ==
    IF stdev_positive(weight_avg_list)
    THEN [index |-> list_index(weight_avg_list, list_max(weight_avg_list, Len(weight_avg_list))),
          pos |-> pos]
    ELSE IF stdev_positive(AsRationals(path_length))
    THEN [index |-> list_index(AsRationals(path_length),
                               list_max(AsRationals(path_length), Len(path_length))),
          pos |-> pos]
    ELSE LET d == randint(0, Len(path_list) - 1, pos) IN [index |-> d.value, pos |-> d.pos]

\* the loop of select_best_path: remove_paths on every path that differs from
\* the best one; removed lists the paths it was called on
RECURSIVE remove_losers(_, _, _, _, _, _)
remove_losers(G, path_list, i, best_path, delete_entry_node, delete_sink_node) ==
    IF i > Len(path_list) THEN [graph |-> G, removed |-> <<>>]
    ELSE IF path_list[i] # best_path
    THEN LET r == remove_losers(remove_paths(G, <<path_list[i]>>, delete_entry_node, delete_sink_node),
                                path_list, i + 1, best_path, delete_entry_node, delete_sink_node)
         IN [graph |-> r.graph, removed |-> <<path_list[i]>> \o r.removed]
    ELSE remove_losers(G, path_list, i + 1, best_path, delete_entry_node, delete_sink_node)

\* select_best_path: statistics.stdev raises StatisticsError on fewer than two
\* values, before anything is selected
select_best_path(G, path_list, path_length, weight_avg_list, delete_entry_node, delete_sink_node, pos) ==
    IF Len(weight_avg_list) < 2 \/ Len(path_length) < 2
    THEN [raised |-> "StatisticsError", graph |-> G, best_path_index |-> -1,
          removed |-> <<>>, rng_pos |-> pos]
    ELSE LET c == best_path_choice(path_list, path_length, weight_avg_list, pos)
             r == remove_losers(G, path_list, 1, path_list[c.index + 1],
                                delete_entry_node, delete_sink_node)
         IN [raised |-> "none", graph |-> r.graph, best_path_index |-> c.index,
             removed |-> r.removed, rng_pos |-> c.pos]

(***************************************************************************)
(* networkx algorithms, as the program uses them.                          *)
(***************************************************************************)
\* the simple paths that extend path to target, depth first in the order of
\* the successors; target is not on path
RECURSIVE simple_paths_from(_, _, _)
simple_paths_from(G, path, target) ==
    LET succ == successors(G, path[Len(path)])
    IN Flatten([i \in 1..Len(succ) |->
                  IF succ[i] = target THEN <<Append(path, target)>>
                  ELSE IF succ[i] \in Range(path) THEN <<>>
                  ELSE simple_paths_from(G, Append(path, succ[i]), target)])

\* list(nx.all_simple_paths(G, source, target)).  For source = target the
\* releases of networkx differ: none, or the path of the one node
\* (source_is_path).
all_simple_paths(G, source, target, source_is_path) ==
    IF source = target
    THEN (IF source_is_path THEN <<<<source>>>> ELSE <<>>)
    ELSE simple_paths_from(G, <<source>>, target)

\* nx.ancestors(G, n), with n itself when a cycle leads back to it
RECURSIVE ancestors_closure(_, _)
ancestors_closure(G, S) ==
    LET T == S \cup {e[1] : e \in {f \in G.edges : f[2] \in S}}
    IN IF T = S THEN S ELSE ancestors_closure(G, T)

ancestors(G, n) == ancestors_closure(G, {e[1] : e \in {f \in G.edges : f[2] = n}})

\* nx.has_path(G, source, target)
has_path(G, source, target) == source = target \/ source \in ancestors(G, target)

is_directed_acyclic_graph(G) == \A n \in Range(G.nodes) : n \notin ancestors(G, n)

\* nx.lowest_common_ancestor(G, a, b) on an acyclic graph: a common ancestor
\* (a node counts among its own ancestors) none of whose successors is a
\* common ancestor.  Which one is returned depends on the iteration order of
\* a set: each is possible.  The empty set stands for None.
lowest_common_ancestor(G, a, b) ==
    LET common == (ancestors(G, a) \cup {a}) \cap (ancestors(G, b) \cup {b})
    IN {c \in common : \A m \in Range(successors(G, c)) : m \notin common}

(***************************************************************************)
(* path_average_weight, solve_bubble, simplify_bubbles                     *)
(***************************************************************************)
\* graph.subgraph(path).edges: every edge of the graph between two nodes of path
subgraph_edges(G, path) == {e \in G.edges : e[1] \in Range(path) /\ e[2] \in Range(path)}

\* statistics.mean of the weights of the edges of the subgraph induced by path
path_average_weight(G, path) ==
    <<SumEdgeWeights(subgraph_edges(G, path)), Cardinality(subgraph_edges(G, path))>>

path_lengths(paths) == [i \in 1..Len(paths) |-> Len(paths[i])]

path_weights(G, paths) == [i \in 1..Len(paths) |-> path_average_weight(G, paths[i])]

solve_bubble(G, ancestor_node, descendant_node, pos) ==
    LET paths == all_simple_paths(G, ancestor_node, descendant_node, FALSE)
    IN select_best_path(G, paths, path_lengths(paths), path_weights(G, paths), FALSE, FALSE, pos)

\* the pairs of predecessors simplify_bubbles goes through, in its order
combinations(preds) ==
    Flatten([i \in 1..(Len(preds) - 1) |-> [k \in 1..(Len(preds) - i) |-> <<preds[i], preds[i + k]>>]])

\* the ancestors the scan of one node may stop on: those of the first pair of
\* predecessors that has a lowest common ancestor
RECURSIVE first_ancestor(_, _, _)
first_ancestor(G, combs, i) ==
    IF i > Len(combs) THEN {}
    ELSE LET lca == lowest_common_ancestor(G, combs[i][1], combs[i][2])
         IN IF lca # {} THEN lca ELSE first_ancestor(G, combs, i + 1)

node_bubbles(G, node) ==
    IF Len(predecessors(G, node)) > 1
    THEN first_ancestor(G, combinations(predecessors(G, node)), 1)
    ELSE {}

\* the scan of simplify_bubbles: the pairs <<noeud_ancetre, node>> it may stop
\* on, those of the first node that has any; empty when no bubble is found
RECURSIVE first_bubble(_, _)
first_bubble(G, i) ==
    IF i > Len(G.nodes) THEN {}
    ELSE IF node_bubbles(G, G.nodes[i]) # {}
    THEN {<<a, G.nodes[i]>> : a \in node_bubbles(G, G.nodes[i])}
    ELSE first_bubble(G, i + 1)

(***************************************************************************)
(* get_starting_nodes, get_sink_nodes, solve_entry_tips, solve_out_tips    *)
(***************************************************************************)
get_starting_nodes(G) == SelectSeq(G.nodes, LAMBDA n : Len(predecessors(G, n)) = 0)

get_sink_nodes(G) == SelectSeq(G.nodes, LAMBDA n : Len(successors(G, n)) = 0)

\* the list of lists of paths that solve_entry_tips builds, node by node and,
\* for each node, start by start
entry_path_list(G, starting_nodes) ==
    Flatten([i \in 1..Len(G.nodes) |->
               IF Len(predecessors(G, G.nodes[i])) > 1
               THEN [j \in 1..Len(starting_nodes) |->
                       all_simple_paths(G, starting_nodes[j], G.nodes[i], FALSE)]
               ELSE <<>>])

solve_entry_tips(G, starting_nodes, pos) ==
    LET path_list == entry_path_list(G, starting_nodes)
        paths == Flatten(path_list)
    IN IF path_list # <<>>
       THEN select_best_path(G, paths, path_lengths(paths), path_weights(G, paths), TRUE, FALSE, pos)
       ELSE [raised |-> "none", graph |-> G, best_path_index |-> -1, removed |-> <<>>, rng_pos |-> pos]

out_path_list(G, ending_nodes) ==
    Flatten([i \in 1..Len(G.nodes) |->
               IF Len(successors(G, G.nodes[i])) > 1
               THEN [j \in 1..Len(ending_nodes) |->
                       all_simple_paths(G, G.nodes[i], ending_nodes[j], FALSE)]
               ELSE <<>>])

solve_out_tips(G, ending_nodes, pos) ==
    LET path_list == out_path_list(G, ending_nodes)
        paths == Flatten(path_list)
    IN IF path_list # <<>>
       THEN select_best_path(G, paths, path_lengths(paths), path_weights(G, paths), FALSE, TRUE, pos)
       ELSE [raised |-> "none", graph |-> G, best_path_index |-> -1, removed |-> <<>>, rng_pos |-> pos]

(***************************************************************************)
(* get_contigs                                                             *)
(***************************************************************************)
\* contig_from with node[0] for node[-1]: the first character of a node is
\* appended
RECURSIVE contig_from_first_char(_, _, _)
contig_from_first_char(path, i, contig_sequence) ==
    IF i > Len(path) THEN contig_sequence
    ELSE contig_from_first_char(path, i + 1,
            IF Len(contig_sequence) = 0 THEN contig_sequence \o path[i]
            ELSE Append(contig_sequence, path[i][1]))

\* the loop over the nodes of one path: the first node whole (while the
\* sequence is empty), then node[-1] of each node
RECURSIVE contig_from(_, _, _)
contig_from(path, i, contig_sequence) ==
    IF i > Len(path) THEN contig_sequence
    ELSE contig_from(path, i + 1,
            IF Len(contig_sequence) = 0 THEN contig_sequence \o path[i]
            ELSE Append(contig_sequence, path[i][Len(path[i])]))

\* the tuples (contig_sequence, len(contig_sequence)), each with the path it
\* was built from
contigs_of(paths) ==
    [i \in 1..Len(paths) |->
        [sequence |-> contig_from(paths[i], 1, <<>>),
         length |-> Len(contig_from(paths[i], 1, <<>>)),
         path |-> paths[i]]]

get_contigs(G, starting_nodes, ending_nodes, source_is_path) ==
    Flatten([i \in 1..Len(starting_nodes) |->
        Flatten([j \in 1..Len(ending_nodes) |->
            IF has_path(G, starting_nodes[i], ending_nodes[j])
            THEN contigs_of(all_simple_paths(G, starting_nodes[i], ending_nodes[j], source_is_path))
            ELSE <<>>])])

(***************************************************************************)
(* cut_kmer and build_kmer_dict                                            *)
(***************************************************************************)
\* the k-mers of a read, in order; none when the read is shorter than kmer_size
cut_kmer(read, kmer_size) ==
    IF Len(read) < kmer_size THEN <<>>
    ELSE [i \in 1..(Len(read) - kmer_size + 1) |-> SubSeq(read, i, i + kmer_size - 1)]

\* kmer_dict[kmer] += 1, or = 1 for a new key; the items keep insertion order
count_kmer(items, kmer) ==
    IF \E i \in 1..Len(items) : items[i][1] = kmer
    THEN [i \in 1..Len(items) |-> IF items[i][1] = kmer THEN <<kmer, items[i][2] + 1>> ELSE items[i]]
    ELSE Append(items, <<kmer, 1>>)

RECURSIVE count_kmers(_, _, _)
count_kmers(items, kmers, i) ==
    IF i > Len(kmers) THEN items ELSE count_kmers(count_kmer(items, kmers[i]), kmers, i + 1)

\* the size build_kmer_dict cuts the reads with, whatever kmer_size it is given
CutSize == 3

RECURSIVE build_kmer_dict_from(_, _, _)
build_kmer_dict_from(items, rds, i) ==
    IF i > Len(rds) THEN items
    ELSE build_kmer_dict_from(count_kmers(items, cut_kmer(rds[i], CutSize), 1), rds, i + 1)

build_kmer_dict(rds, kmer_size) == build_kmer_dict_from(<<>>, rds, 1)

(***************************************************************************)
(* build_graph                                                             *)
(***************************************************************************)
\* build_graph_iter without the has_edge test: the weight of an existing edge
\* is replaced by the count
build_graph_iter_replace(G, kmer, count) ==
    LET prefix == IF Len(kmer) = 0 THEN <<>> ELSE SubSeq(kmer, 1, Len(kmer) - 1)
        suffix == IF Len(kmer) = 0 THEN <<>> ELSE SubSeq(kmer, 2, Len(kmer))
    IN add_edge(G, prefix, suffix, count)

\* one iteration of the loop over kmer_dict.items()
build_graph_iter(G, kmer, count) ==
    LET prefix == IF Len(kmer) = 0 THEN <<>> ELSE SubSeq(kmer, 1, Len(kmer) - 1)
        suffix == IF Len(kmer) = 0 THEN <<>> ELSE SubSeq(kmer, 2, Len(kmer))
        G1 == IF ~has_node(G, prefix) THEN add_node(G, prefix) ELSE G
        G2 == IF ~has_node(G1, suffix) THEN add_node(G1, suffix) ELSE G1
    IN IF has_edge(G2, prefix, suffix)
       THEN add_to_weight(G2, prefix, suffix, count)
       ELSE add_edge(G2, prefix, suffix, count)

RECURSIVE build_graph_from(_, _, _)
build_graph_from(G, items, i) ==
    IF i > Len(items) THEN G
    ELSE build_graph_from(build_graph_iter(G, items[i][1], items[i][2]), items, i + 1)

build_graph(items) == build_graph_from(EmptyGraph, items, 1)

Kmers == SeqsUpTo(Alphabet, MaxKmerLen)

KmerDicts(maxItems) ==
    {d \in SeqsUpTo(Kmers \X (1..MaxCount), maxItems) :
        IsInjective([i \in 1..Len(d) |-> d[i][1]])}

NoSel == [path_list |-> <<>>, path_length |-> <<>>, weight_avg_list |-> <<>>,
          delete_entry_node |-> FALSE, delete_sink_node |-> FALSE]

NoOut == [op |-> "none"]

InitBuild ==
    /\ pc = "build_graph"
    /\ graph = EmptyGraph
    /\ graph_in = EmptyGraph
    /\ kmer_dict \in KmerDicts(MaxItems)
    /\ kmer_idx = 0
    /\ sel = NoSel
    /\ rng_pos = 1
    /\ runs = <<>>
    /\ out = NoOut
    /\ calls = <<>>
    /\ depth = 0

build_graph_loop ==
    /\ pc = "build_graph"
    /\ kmer_idx < Len(kmer_dict)
    /\ graph' = build_graph_iter(graph, kmer_dict[kmer_idx + 1][1], kmer_dict[kmer_idx + 1][2])
    /\ kmer_idx' = kmer_idx + 1
    /\ UNCHANGED <<pc, graph_in, kmer_dict, sel, rng_pos, runs, out, calls, depth>>

build_graph_return ==
    /\ pc = "build_graph"
    /\ kmer_idx = Len(kmer_dict)
    /\ pc' = "built"
    /\ UNCHANGED <<graph, graph_in, kmer_dict, kmer_idx, sel, rng_pos, runs, out, calls, depth>>

NextBuild == build_graph_loop \/ build_graph_return

SpecBuild == InitBuild /\ [][NextBuild]_vars

(***************************************************************************)
(* select_best_path on its own: one call (SpecSelect), and several calls   *)
(* in one or several processes (SpecRuns).  The module seeds the random    *)
(* source when it is imported, once per process.                           *)
(***************************************************************************)
nA == <<"A">>
nB == <<"B">>
nC == <<"C">>
nD == <<"D">>

\* two parallel paths from A to D and the direct edge
SelGraph ==
    [nodes |-> <<nA, nB, nC, nD>>,
     edges |-> {<<nA, nB, 1>>, <<nB, nD, 1>>, <<nA, nC, 1>>, <<nC, nD, 1>>, <<nA, nD, 1>>}]

SelPaths == {<<nA, nB, nD>>, <<nA, nC, nD>>, <<nA, nD>>}

SelLengths == {2, 3}

SelWeights == {<<1, 1>>, <<3, 2>>}

SelArgs(maxPaths) ==
    UNION {[path_list : [1..n -> SelPaths],
            path_length : [1..n -> SelLengths],
            weight_avg_list : [1..n -> SelWeights],
            delete_entry_node : BOOLEAN,
            delete_sink_node : BOOLEAN] : n \in 1..maxPaths}

InitSelect ==
    /\ pc = "select_best_path"
    /\ graph = SelGraph
    /\ graph_in = SelGraph
    /\ kmer_dict = <<>>
    /\ kmer_idx = 0
    /\ sel \in SelArgs(MaxPaths)
    /\ rng_pos = 1
    /\ runs = <<>>
    /\ out = NoOut
    /\ calls = <<>>
    /\ depth = 0

InitRuns ==
    /\ pc = "process"
    /\ graph = SelGraph
    /\ graph_in = SelGraph
    /\ kmer_dict = <<>>
    /\ kmer_idx = 0
    /\ sel \in SelArgs(MaxRunPaths)
    /\ rng_pos = 1
    /\ runs = <<>>
    /\ out = NoOut
    /\ calls = <<>>
    /\ depth = 0

\* a call of select_best_path(graph_in, ...); calls lists the calls made since
\* the module was imported
select_best_path_call ==
    /\ pc \in {"select_best_path", "process"}
    /\ Len(runs) < MaxRuns
    /\ LET r == select_best_path(graph_in, sel.path_list, sel.path_length, sel.weight_avg_list,
                                 sel.delete_entry_node, sel.delete_sink_node, rng_pos)
       IN /\ r.rng_pos <= Len(MTWords) + 1
          /\ runs' = Append(runs, [first_call |-> calls = <<>>,
                                   raised |-> r.raised,
                                   best_path_index |-> r.best_path_index,
                                   removed |-> r.removed,
                                   graph |-> r.graph])
          /\ graph' = r.graph
          /\ rng_pos' = r.rng_pos
    /\ calls' = Append(calls, "select_best_path")
    /\ pc' = IF pc = "select_best_path" THEN "returned" ELSE pc
    /\ UNCHANGED <<graph_in, kmer_dict, kmer_idx, sel, out, depth>>

\* a new process imports the module: random.seed(9001)
import_module ==
    /\ pc = "process"
    /\ calls # <<>>
    /\ rng_pos' = random_seed(rng_pos)
    /\ calls' = <<>>
    /\ UNCHANGED <<pc, graph, graph_in, kmer_dict, kmer_idx, sel, runs, out, depth>>

NextSelect == select_best_path_call

SpecSelect == InitSelect /\ [][NextSelect]_vars

NextRuns == select_best_path_call \/ import_module

SpecRuns == InitRuns /\ [][NextRuns]_vars

\* the run just made
LastRun == runs[Len(runs)]

NumPaths == Len(sel.path_list)

AllEqual(xs) == \A i, j \in 1..Len(xs) : REq(xs[i], xs[j])

IsMaxAt(xs, i) == \A j \in 1..Len(xs) : ~RLess(xs[i], xs[j])

IsFirstMaxAt(xs, i) == IsMaxAt(xs, i) /\ \A j \in 1..(i - 1) : ~IsMaxAt(xs, j)

\* C1: select_best_path called with exactly one candidate path completes
\* without raising, removes nothing and returns the graph it was given
C1_SinglePathUnchanged ==
    (pc = "returned" /\ NumPaths = 1) =>
        /\ LastRun.raised = "none"
        /\ LastRun.removed = <<>>
        /\ LastRun.graph = graph_in

\* C5: with at least two candidates the chosen index is the first maximum of
\* the average weights when they are not all equal, else the first maximum of
\* the lengths when they are not all equal, else an index in 0..N-1; exactly
\* the candidates that differ from the chosen one are passed to remove_paths
C5_PriorityRule ==
    (pc = "returned" /\ NumPaths >= 2) =>
        LET b == LastRun.best_path_index + 1
            lens == AsRationals(sel.path_length)
        IN /\ LastRun.raised = "none"
           /\ b \in 1..NumPaths
           /\ ~AllEqual(sel.weight_avg_list) => IsFirstMaxAt(sel.weight_avg_list, b)
           /\ (AllEqual(sel.weight_avg_list) /\ ~AllEqual(lens)) => IsFirstMaxAt(lens, b)
           /\ LastRun.removed = SelectSeq(sel.path_list, LAMBDA p : p # sel.path_list[b])
           /\ sel.path_list[b] \notin Range(LastRun.removed)

\* three candidates, the largest average weight held by two of them, the
\* longest one not among these: the first of the two is chosen and the
\* others are removed
C5_Witness ==
    /\ pc = "returned"
    /\ NumPaths = 3
    /\ ~AllEqual(sel.weight_avg_list)
    /\ REq(sel.weight_avg_list[2], sel.weight_avg_list[3])
    /\ RLess(sel.weight_avg_list[1], sel.weight_avg_list[2])
    /\ sel.path_length = <<3, 2, 2>>
    /\ LastRun.best_path_index = 1
    /\ Len(LastRun.removed) = 2

GraphNodes == <<nA, nB, nC, nD>>

GraphWeights == {1, 5}

NodePairs == {p \in Range(GraphNodes) \X Range(GraphNodes) : p[1] # p[2]}

WeightedGraphs(maxEdges) ==
    UNION {{[nodes |-> GraphNodes, edges |-> {<<p[1], p[2], w[p]>> : p \in E}] : w \in [E -> GraphWeights]}
              : E \in {F \in SUBSET NodePairs : Cardinality(F) <= maxEdges}}

AcyclicGraphs(maxEdges) == {G \in WeightedGraphs(maxEdges) : is_directed_acyclic_graph(G)}

InitGraph ==
    /\ pc = "start"
    /\ graph \in AcyclicGraphs(MaxGraphEdges)
    /\ graph_in = graph
    /\ kmer_dict = <<>>
    /\ kmer_idx = 0
    /\ sel = NoSel
    /\ rng_pos = 1
    /\ runs = <<>>
    /\ out = NoOut
    /\ calls = <<>>
    /\ depth = 0

\* solve_bubble(graph, ancestor_node, descendant_node) on two nodes joined by
\* at least two simple paths
solve_bubble_call ==
    /\ pc = "start"
    /\ \E a, d \in Range(graph.nodes) :
          LET paths == all_simple_paths(graph, a, d, FALSE)
              r == solve_bubble(graph, a, d, rng_pos)
          IN /\ Len(paths) >= 2
             /\ r.rng_pos <= Len(MTWords) + 1
             /\ graph' = r.graph
             /\ rng_pos' = r.rng_pos
             /\ out' = [op |-> "solve_bubble", ancestor_node |-> a, descendant_node |-> d,
                        paths |-> paths, raised |-> r.raised,
                        best_path_index |-> r.best_path_index]
    /\ pc' = "solve_bubble_done"
    /\ UNCHANGED <<graph_in, kmer_dict, kmer_idx, sel, runs, calls, depth>>

simplify_bubbles_call ==
    /\ pc = "start"
    /\ pc' = "simplify_bubbles"
    /\ UNCHANGED <<graph, graph_in, kmer_dict, kmer_idx, sel, rng_pos, runs, out, calls, depth>>

\* simplify_bubbles found a bubble: it calls itself on solve_bubble's graph
simplify_bubbles_recurse ==
    /\ pc = "simplify_bubbles"
    /\ depth < MaxDepth
    /\ \E b \in first_bubble(graph, 1) :
          LET r == solve_bubble(graph, b[1], b[2], rng_pos)
          IN /\ r.rng_pos <= Len(MTWords) + 1
             /\ graph' = r.graph
             /\ rng_pos' = r.rng_pos
             /\ out' = [op |-> "solve_bubble", ancestor_node |-> b[1], descendant_node |-> b[2],
                        paths |-> all_simple_paths(graph, b[1], b[2], FALSE),
                        raised |-> r.raised, best_path_index |-> r.best_path_index]
    /\ depth' = depth + 1
    /\ UNCHANGED <<pc, graph_in, kmer_dict, kmer_idx, sel, runs, calls>>

\* simplify_bubbles found no bubble: the graph is returned through the calls
simplify_bubbles_return ==
    /\ pc = "simplify_bubbles"
    /\ first_bubble(graph, 1) = {}
    /\ pc' = "simplified"
    /\ UNCHANGED <<graph, graph_in, kmer_dict, kmer_idx, sel, rng_pos, runs, out, calls, depth>>

solve_entry_tips_call ==
    /\ pc = "start"
    /\ LET r == solve_entry_tips(graph, get_starting_nodes(graph), rng_pos)
       IN /\ r.rng_pos <= Len(MTWords) + 1
          /\ graph' = r.graph
          /\ rng_pos' = r.rng_pos
          /\ out' = [op |-> "solve_entry_tips", raised |-> r.raised,
                     best_path_index |-> r.best_path_index, removed |-> r.removed]
    /\ pc' = "entry_tips_done"
    /\ UNCHANGED <<graph_in, kmer_dict, kmer_idx, sel, runs, calls, depth>>

solve_out_tips_call ==
    /\ pc = "start"
    /\ LET r == solve_out_tips(graph, get_sink_nodes(graph), rng_pos)
       IN /\ r.rng_pos <= Len(MTWords) + 1
          /\ graph' = r.graph
          /\ rng_pos' = r.rng_pos
          /\ out' = [op |-> "solve_out_tips", raised |-> r.raised,
                     best_path_index |-> r.best_path_index, removed |-> r.removed]
    /\ pc' = "out_tips_done"
    /\ UNCHANGED <<graph_in, kmer_dict, kmer_idx, sel, runs, calls, depth>>

\* path_average_weight(graph, path) on a simple path of at least two nodes
path_average_weight_call ==
    /\ pc = "start"
    /\ \E a, d \in Range(graph.nodes) :
          \E i \in 1..Len(all_simple_paths(graph, a, d, FALSE)) :
             out' = [op |-> "path_average_weight",
                     path |-> all_simple_paths(graph, a, d, FALSE)[i],
                     value |-> path_average_weight(graph, all_simple_paths(graph, a, d, FALSE)[i])]
    /\ pc' = "weight_done"
    /\ UNCHANGED <<graph, graph_in, kmer_dict, kmer_idx, sel, rng_pos, runs, calls, depth>>

NextGraph ==
    \/ solve_bubble_call
    \/ simplify_bubbles_call
    \/ simplify_bubbles_recurse
    \/ simplify_bubbles_return
    \/ solve_entry_tips_call
    \/ solve_out_tips_call
    \/ path_average_weight_call

SpecGraph == InitGraph /\ [][NextGraph]_vars

NodeSet(G) == Range(G.nodes)

\* path is a path of G: its nodes are in G and an edge joins each to the next
IsPathOf(G, path) ==
    /\ \A i \in 1..Len(path) : has_node(G, path[i])
    /\ \A i \in 1..(Len(path) - 1) : has_edge(G, path[i], path[i + 1])

\* C2: after solve_bubble on two nodes joined by at least two simple paths,
\* the graph holds exactly one simple path between them, the chosen one, and
\* no other candidate is a path of the graph any more
C2_OnePathLeft ==
    pc = "solve_bubble_done" =>
        LET best == out.paths[out.best_path_index + 1]
        IN /\ out.raised = "none"
           /\ all_simple_paths(graph, out.ancestor_node, out.descendant_node, FALSE) = <<best>>
           /\ \A i \in 1..Len(out.paths) : out.paths[i] # best => ~IsPathOf(graph, out.paths[i])

\* C3: every recursive step of simplify_bubbles strictly shrinks the graph
C3_EveryStepShrinks ==
    [][simplify_bubbles_recurse => Cardinality(NodeSet(graph')) < Cardinality(NodeSet(graph))]_vars

\* C4: solve_entry_tips deletes no node that has more than one predecessor in
\* the graph it was given
C4_ConvergenceKept ==
    pc = "entry_tips_done" =>
        \A n \in NodeSet(graph_in) : Len(predecessors(graph_in, n)) > 1 => has_node(graph, n)

\* C10: path_average_weight is the mean of the weights of the edges between
\* the consecutive nodes of the path
C10_MeanOfPathEdges ==
    pc = "weight_done" =>
        REq(out.value,
            <<SumSeq([i \in 1..(Len(out.path) - 1) |-> edge_weight(graph, out.path[i], out.path[i + 1])],
                     Len(out.path) - 1),
              Len(out.path) - 1>>)

(***************************************************************************)
(* get_contigs on the graphs over the strings of one length (SpecContigs), *)
(* with the nodes without predecessor and without successor as the         *)
(* starting and ending nodes.                                              *)
(***************************************************************************)
ContigNodeLists ==
    {<<<<"A">>, <<"C">>>>,
     <<<<"A", "A">>, <<"A", "C">>, <<"C", "A">>, <<"C", "C">>>>}

ContigGraphs(maxEdges) ==
    UNION {{[nodes |-> ns, edges |-> {<<p[1], p[2], 1>> : p \in E}]
               : E \in {F \in SUBSET (Range(ns) \X Range(ns)) : Cardinality(F) <= maxEdges}}
              : ns \in ContigNodeLists}

InitContigs ==
    /\ pc = "get_contigs"
    /\ graph \in ContigGraphs(MaxContigEdges)
    /\ graph_in = graph
    /\ kmer_dict = <<>>
    /\ kmer_idx = 0
    /\ sel = NoSel
    /\ rng_pos = 1
    /\ runs = <<>>
    /\ out = NoOut
    /\ calls = <<>>
    /\ depth = 0

get_contigs_call ==
    /\ pc = "get_contigs"
    /\ \E source_is_path \in BOOLEAN :
          out' = [op |-> "get_contigs",
                  starting_nodes |-> get_starting_nodes(graph),
                  ending_nodes |-> get_sink_nodes(graph),
                  contigs |-> get_contigs(graph, get_starting_nodes(graph),
                                          get_sink_nodes(graph), source_is_path)]
    /\ pc' = "contigs_done"
    /\ UNCHANGED <<graph, graph_in, kmer_dict, kmer_idx, sel, rng_pos, runs, calls, depth>>

NextContigs == get_contigs_call

SpecContigs == InitContigs /\ [][NextContigs]_vars

\* the length k-1 of the nodes of the graph
NodeLen == Len(graph.nodes[1])

\* the first node of the path, then the last character of each later node
Overlap(path) ==
    [i \in 1..(NodeLen + Len(path) - 1) |->
        IF i <= NodeLen THEN path[1][i] ELSE path[i - NodeLen + 1][NodeLen]]

\* C8: every contig returned comes from a simple path of the graph from a
\* starting node to an ending node, is the first node followed by the last
\* character of every later node, and its length is the length of that
\* sequence, k-1 plus the number of edges of the path; a pair of nodes with
\* no path between them gives no contig
C8_ContigsFromPaths ==
    pc = "contigs_done" =>
        /\ \A i \in 1..Len(out.contigs) :
              LET c == out.contigs[i]
              IN /\ Len(c.path) >= 1
                 /\ IsPathOf(graph, c.path)
                 /\ IsInjective(c.path)
                 /\ c.path[1] \in Range(out.starting_nodes)
                 /\ c.path[Len(c.path)] \in Range(out.ending_nodes)
                 /\ c.sequence = Overlap(c.path)
                 /\ c.length = Len(c.sequence)
                 /\ c.length = NodeLen + (Len(c.path) - 1)
        /\ \A s \in Range(out.starting_nodes), t \in Range(out.ending_nodes) :
              ~has_path(graph, s, t) =>
                  ~\E i \in 1..Len(out.contigs) :
                      /\ out.contigs[i].path[1] = s
                      /\ out.contigs[i].path[Len(out.contigs[i].path)] = t

\* a contig of a path of three nodes of length two whose first and last
\* characters differ, in a graph that also has a starting node and an ending
\* node with no path between them
C8_Witness ==
    /\ pc = "contigs_done"
    /\ NodeLen = 2
    /\ \E i \in 1..Len(out.contigs) :
          /\ Len(out.contigs[i].path) = 3
          /\ out.contigs[i].length = 4
          /\ \E k \in 2..3 : out.contigs[i].path[k][1] # out.contigs[i].path[k][2]
    /\ \E s \in Range(out.starting_nodes), t \in Range(out.ending_nodes) : ~has_path(graph, s, t)

(***************************************************************************)
(* main (SpecMain): the pipeline driver on the reads of a fastq file.      *)
(* sel holds the reads; calls lists the functions main has called.         *)
(***************************************************************************)
KmerSizeArg == 200

Reads(maxReads) == SeqsUpTo(SeqsUpTo(Alphabet, MaxReadLen), maxReads)

InitMain ==
    /\ pc = "main"
    /\ graph = EmptyGraph
    /\ graph_in = EmptyGraph
    /\ kmer_dict = <<>>
    /\ kmer_idx = 0
    /\ sel \in {[reads |-> r] : r \in Reads(MaxReads)}
    /\ rng_pos = 1
    /\ runs = <<>>
    /\ out = NoOut
    /\ calls = <<>>
    /\ depth = 0

main_build_kmer_dict ==
    /\ pc = "main"
    /\ kmer_dict' = build_kmer_dict(sel.reads, KmerSizeArg)
    /\ calls' = Append(calls, "build_kmer_dict")
    /\ pc' = "main_build_graph"
    /\ UNCHANGED <<graph, graph_in, kmer_idx, sel, rng_pos, runs, out, depth>>

main_build_graph ==
    /\ pc = "main_build_graph"
    /\ graph' = build_graph(kmer_dict)
    /\ calls' = Append(calls, "build_graph")
    /\ pc' = "main_get_starting_nodes"
    /\ UNCHANGED <<graph_in, kmer_dict, kmer_idx, sel, rng_pos, runs, out, depth>>

main_get_starting_nodes ==
    /\ pc = "main_get_starting_nodes"
    /\ out' = [op |-> "main", list_start_nodes |-> get_starting_nodes(graph),
               list_sink_nodes |-> <<>>, list_tuple_contigs |-> <<>>]
    /\ calls' = Append(calls, "get_starting_nodes")
    /\ pc' = "main_get_sink_nodes"
    /\ UNCHANGED <<graph, graph_in, kmer_dict, kmer_idx, sel, rng_pos, runs, depth>>

main_get_sink_nodes ==
    /\ pc = "main_get_sink_nodes"
    /\ out' = [out EXCEPT !.list_sink_nodes = get_sink_nodes(graph)]
    /\ calls' = Append(calls, "get_sink_nodes")
    /\ pc' = "main_get_contigs"
    /\ UNCHANGED <<graph, graph_in, kmer_dict, kmer_idx, sel, rng_pos, runs, depth>>

main_get_contigs ==
    /\ pc = "main_get_contigs"
    /\ \E source_is_path \in BOOLEAN :
          out' = [out EXCEPT !.list_tuple_contigs =
                     get_contigs(graph, out.list_start_nodes, out.list_sink_nodes, source_is_path)]
    /\ calls' = Append(calls, "get_contigs")
    /\ pc' = "main_save_contigs"
    /\ UNCHANGED <<graph, graph_in, kmer_dict, kmer_idx, sel, rng_pos, runs, depth>>

main_save_contigs ==
    /\ pc = "main_save_contigs"
    /\ calls' = Append(calls, "save_contigs")
    /\ pc' = "main_draw_graph"
    /\ UNCHANGED <<graph, graph_in, kmer_dict, kmer_idx, sel, rng_pos, runs, out, depth>>

\* args.graphimg_file is given: the graph is drawn
main_draw_graph ==
    /\ pc = "main_draw_graph"
    /\ calls' = Append(calls, "draw_graph")
    /\ pc' = "main_done"
    /\ UNCHANGED <<graph, graph_in, kmer_dict, kmer_idx, sel, rng_pos, runs, out, depth>>

\* args.graphimg_file is not given
main_return ==
    /\ pc = "main_draw_graph"
    /\ pc' = "main_done"
    /\ UNCHANGED <<graph, graph_in, kmer_dict, kmer_idx, sel, rng_pos, runs, out, calls, depth>>

NextMain ==
    \/ main_build_kmer_dict
    \/ main_build_graph
    \/ main_get_starting_nodes
    \/ main_get_sink_nodes
    \/ main_get_contigs
    \/ main_save_contigs
    \/ main_draw_graph
    \/ main_return

SpecMain == InitMain /\ [][NextMain]_vars

CalledBefore(f, i) == \E j \in 1..(i - 1) : calls[j] = f

\* C7: whenever main extracts the contigs, it has built the graph and then
\* called simplify_bubbles, solve_entry_tips and solve_out_tips, and has
\* computed the starting and sink nodes after them
C7_ContigsAfterSimplification ==
    \A i \in 1..Len(calls) :
        calls[i] = "get_contigs" =>
            \E b, e, o, s, t \in 1..(i - 1) :
                /\ CalledBefore("build_graph", b)
                /\ calls[b] = "simplify_bubbles"
                /\ calls[e] = "solve_entry_tips"
                /\ calls[o] = "solve_out_tips"
                /\ b < e /\ b < o
                /\ calls[s] = "get_starting_nodes" /\ calls[t] = "get_sink_nodes"
                /\ e < s /\ o < s /\ e < t /\ o < t

(***************************************************************************)
(* C6: build_graph conserves the weight, keeps one edge per ordered pair   *)
(* of nodes and positive weights; the count of a k-mer whose edge exists   *)
(* is added to the weight of that edge.                                    *)
(***************************************************************************)
SumWeights(G) == SumEdgeWeights(G.edges)

RECURSIVE SumCounts(_, _)
SumCounts(items, n) == IF n = 0 THEN 0 ELSE items[n][2] + SumCounts(items, n - 1)

\* C6: after each iteration, and so when build_graph returns, the sum of the
\* edge weights is the sum of the counts processed, no ordered pair of nodes
\* has two edges, every weight is a positive integer and both ends of every
\* edge are nodes
C6_WeightConservation ==
    pc \in {"build_graph", "built"} =>
        /\ SumWeights(graph) = SumCounts(kmer_dict, kmer_idx)
        /\ \A e, f \in graph.edges : (e[1] = f[1] /\ e[2] = f[2]) => e = f
        /\ \A e \in graph.edges : e[3] \in Nat /\ e[3] >= 1
        /\ \A e \in graph.edges : has_node(graph, e[1]) /\ has_node(graph, e[2])
        /\ IsInjective(graph.nodes)

\* two k-mers of the dictionary share their prefix -> suffix edge, and
\* build_graph has returned
C6_Witness ==
    /\ pc = "built"
    /\ Len(kmer_dict) = 2
    /\ Cardinality(graph.edges) = 1
    /\ SumWeights(graph) = kmer_dict[1][2] + kmer_dict[2][2]

====
